---------------------------- MODULE Spec2Model ----------------------------
(***************************************************************************)
(* Mafqood mobile client: the fetch-based API client (api/client), the     *)
(* image URL normaliser and the match filter / classifier of the report    *)
(* screen.  Strings are sequences of one-character strings, so that        *)
(* concatenation, prefix tests and containment are computed, not assumed.  *)
(***************************************************************************)
EXTENDS Integers, Sequences, FiniteSets

VARIABLES
    calls,          \* the API client calls made so far, in call order
    requests,       \* the HTTP requests handed to fetch, in issue order
    API_BASE_URL,   \* the base URL imported from api/config
    urlCalled,      \* whether buildImageUrl has been called
    imageUrl,       \* the argument of the last buildImageUrl call
    builtUrl,       \* the string the last buildImageUrl call returned
    urlLog,         \* the buildImageUrl calls so far: argument, base, result
    MATCH_THRESHOLD,        \* imported from api/config, in units of 1/SimScale
    HIGH_MATCH_THRESHOLD,   \* imported from api/config, in units of 1/SimScale
    matchesSet,     \* whether setMatches has been called
    matches,        \* the report screen's `matches` state (MatchResult[])
    filteredMatches,\* the report screen's filteredMatches of the last render
    cards,          \* the Match objects the success modal's cards were given
    routeType,      \* the report screen's route.params?.type
    reportType,     \* the report screen's `reportType` state
    formData,       \* the report screen's `formData` state
    isSubmitting,   \* the report screen's `isSubmitting` state
    showSuccessModal,   \* the report screen's `showSuccessModal` state
    error,          \* the report screen's `error` state
    submissions,    \* the handleSubmit runs that got past validation, in start order
    segmentPresses, \* the presses on the type toggle's segments and what each called
    navigations,    \* the types HomeScreen navigated to the report screen with
    resets,         \* the settings screen's handleResetData runs, in start order
    storage,        \* what AsyncStorage holds
    queryCache      \* the state of the query client's cached queries

apiVars == <<calls, requests>>
urlVars == <<API_BASE_URL, urlCalled, imageUrl, builtUrl, urlLog>>
matchVars == <<MATCH_THRESHOLD, HIGH_MATCH_THRESHOLD, matchesSet, matches,
               filteredMatches, cards>>
screenVars == <<routeType, reportType, formData, isSubmitting,
                showSuccessModal, error, submissions, segmentPresses,
                navigations>>
settingsVars == <<resets, storage, queryCache>>
vars == <<calls, requests, API_BASE_URL, urlCalled, imageUrl, builtUrl, urlLog,
          MATCH_THRESHOLD, HIGH_MATCH_THRESHOLD, matchesSet, matches,
          filteredMatches, cards, routeType, reportType, formData,
          isSubmitting, showSuccessModal, error, submissions, segmentPresses,
          navigations, resets,
          storage, queryCache>>

---------------------------------------------------------------------------
(* Bounds *)

\* At most this many API client calls are made
MaxCalls == 2

\* buildImageUrl is applied to strings of at most this many pieces of UrlTokens
MaxUrlTokens == 4

\* A similarity of a response is a decimal with at most this many decimals
MaxDecimals == 3

\* A response holds at most this many matches
MaxMatches == 3

\* buildImageUrl is called at most this many times in a row
MaxUrlCalls == 3

\* handleResetData of the settings screen runs at most this many times
MaxResets == 2

\* The segments of the type toggle are pressed and the report screen is
\* navigated to at most this many times in all
MaxPresses == 5

---------------------------------------------------------------------------
(* String helpers (JavaScript String semantics on character sequences) *)

\* String.prototype.startsWith
StartsWith(s, p) ==
    /\ Len(p) <= Len(s)
    /\ SubSeq(s, 1, Len(p)) = p

\* String.prototype.includes
Contains(s, p) ==
    \E i \in 1..(Len(s) - Len(p) + 1) : SubSeq(s, i, i + Len(p) - 1) = p

Digit(d) == CASE d = 0 -> "0" [] d = 1 -> "1" [] d = 2 -> "2" [] d = 3 -> "3"
              [] d = 4 -> "4" [] d = 5 -> "5" [] d = 6 -> "6" [] d = 7 -> "7"
              [] d = 8 -> "8" [] d = 9 -> "9"

\* Number to decimal string, as a template literal `${n}` of a non-negative integer
RECURSIVE NumberToString(_)
NumberToString(n) == IF n < 10 THEN <<Digit(n)>> ELSE NumberToString(n \div 10) \o <<Digit(n % 10)>>

---------------------------------------------------------------------------
(* API client: api/client *)

submitLostItem  == "submitLostItem"
submitFoundItem == "submitFoundItem"
fetchHistory    == "fetchHistory"
resetDatabase   == "resetDatabase"
checkHealth     == "checkHealth"

Operations == {submitLostItem, submitFoundItem, fetchHistory, resetDatabase, checkHealth}

\* The endpoint key of ENDPOINTS each operation passes to fetch
Endpoint(op) ==
    CASE op = submitLostItem  -> "LOST"
      [] op = submitFoundItem -> "FOUND"
      [] op = fetchHistory    -> "HISTORY"
      [] op = resetDatabase   -> "RESET"
      [] op = checkHealth     -> "HEALTH"

\* The HTTP method of each operation's fetch (fetch without init is a GET)
Method(op) ==
    CASE op = submitLostItem  -> "POST"
      [] op = submitFoundItem -> "POST"
      [] op = fetchHistory    -> "GET"
      [] op = resetDatabase   -> "DELETE"
      [] op = checkHealth     -> "GET"

\* Response.ok of the fetch standard: the status is in the range 200-299
Ok(status) == status >= 200 /\ status <= 299

\* The statuses the backend answers with in the model
Statuses == {200, 299, 300, 500}

\* The bodies response.text() resolves to in the model: "" and "boom"
Bodies == { <<>>, <<"b","o","o","m">> }

\* The parsed values response.json() resolves to in the model
JsonValues == {"dataA", "dataB"}

\* The literal of .catch(() => 'Unknown error')
UnknownError == <<"U","n","k","n","o","w","n"," ","e","r","r","o","r">>

\* The literal of checkHealth's throw: 'Backend is not reachable'
BackendNotReachable ==
    <<"B","a","c","k","e","n","d"," ","i","s"," ","n","o","t"," ",
      "r","e","a","c","h","a","b","l","e">>

\* The text before ${response.status} in each operation's error message
FailedPrefix(op) ==
    CASE op = submitLostItem ->
           <<"F","a","i","l","e","d"," ","t","o"," ","s","u","b","m","i","t"," ",
             "l","o","s","t"," ","i","t","e","m",":"," ">>
      [] op = submitFoundItem ->
           <<"F","a","i","l","e","d"," ","t","o"," ","s","u","b","m","i","t"," ",
             "f","o","u","n","d"," ","i","t","e","m",":"," ">>
      [] op = fetchHistory ->
           <<"F","a","i","l","e","d"," ","t","o"," ","f","e","t","c","h"," ",
             "h","i","s","t","o","r","y",":"," ">>
      [] op = resetDatabase ->
           <<"F","a","i","l","e","d"," ","t","o"," ","r","e","s","e","t"," ",
             "d","a","t","a","b","a","s","e",":"," ">>

NoError == [name |-> "", message |-> <<>>]
NoValue == ""

\* The error fetch rejects with when the network is down (React Native's
\* fetch rejects with a TypeError)
NetworkRequestFailed ==
    [name |-> "TypeError",
     message |-> <<"N","e","t","w","o","r","k"," ","r","e","q","u","e","s","t"," ",
                   "f","a","i","l","e","d">>]

\* The errors fetch rejects with when no response is received
TransportErrors ==
    { NetworkRequestFailed,
      [name |-> "TypeError",
       message |-> <<"N","e","t","w","o","r","k"," ","r","e","q","u","e","s","t"," ",
                     "t","i","m","e","d"," ","o","u","t">>] }

\* The errors response.text() rejects with when the body cannot be read
BodyReadError == [name |-> "TypeError", message |-> <<"b","o","d","y">>]

\* The error response.json() rejects with on a body that is not JSON
JsonParseError == [name |-> "SyntaxError", message |-> <<"J","S","O","N">>]

\* new Error(message)
Error(message) == [name |-> "Error", message |-> message]

\* Faulty variant of FailedMessage: the status is left out of the message
FailedMessageNoStatus(op, status, errorText) ==
    FailedPrefix(op) \o <<" ","-"," ">> \o errorText

\* `Failed to ...: ${response.status} - ${errorText}`
FailedMessage(op, status, errorText) ==
    FailedPrefix(op) \o NumberToString(status) \o <<" ","-"," ">> \o errorText

\* await response.text().catch(() => 'Unknown error'): the text the body read
\* gave, or the placeholder when the read rejected
ErrorText(readOk, body) == IF readOk THEN body ELSE UnknownError

\* Faulty variant of StatusError: no .catch on response.text(), the read failure escapes
StatusErrorNoCatch(op, status, readOk, body) ==
    IF readOk THEN Error(FailedMessage(op, status, body)) ELSE BodyReadError

\* The error thrown in the `if (!response.ok)` block once response.text() settled
StatusError(op, status, readOk, body) ==
    Error(FailedMessage(op, status, ErrorText(readOk, body)))

\* A payload field that was left out
Undefined == <<"undefined">>

\* if (value): a string is truthy unless it is empty
Truthy(value) == value # Undefined /\ value # <<>>

\* One entry of a FormData
Entry(name, value) == [name |-> name, value |-> value]

\* Faulty variant of buildFormData: the optional fields are appended whenever
\* they are not undefined
buildFormDataKeepsEmpty(payload) ==
    << Entry("file", [uri |-> payload.file.uri, name |-> payload.file.name,
                      type |-> payload.file.type]),
       Entry("title", payload.title) >>
    \o (IF payload.description # Undefined
        THEN <<Entry("description", payload.description)>> ELSE <<>>)
    \o <<Entry("location_type", payload.locationType)>>
    \o (IF payload.locationDetail # Undefined
        THEN <<Entry("location_detail", payload.locationDetail)>> ELSE <<>>)
    \o <<Entry("time_frame", payload.timeFrame)>>

\* buildFormData(payload): the entries appended, in order
buildFormData(payload) ==
    << Entry("file", [uri |-> payload.file.uri, name |-> payload.file.name,
                      type |-> payload.file.type]),
       Entry("title", payload.title) >>
    \o (IF Truthy(payload.description)
        THEN <<Entry("description", payload.description)>> ELSE <<>>)
    \o <<Entry("location_type", payload.locationType)>>
    \o (IF Truthy(payload.locationDetail)
        THEN <<Entry("location_detail", payload.locationDetail)>> ELSE <<>>)
    \o <<Entry("time_frame", payload.timeFrame)>>

\* The image files of the model
Files == { [uri |-> "file:///a.jpg", name |-> "a.jpg", type |-> "image/jpeg"],
           [uri |-> "file:///b.png", name |-> "b.png", type |-> "image/png"] }

\* The texts of the model: "", "Bag"
Texts == { <<>>, <<"B","a","g">> }

\* The payloads the submit operations are called with
Payloads ==
    [file : Files, title : Texts, description : Texts \cup {Undefined},
     locationType : Texts, locationDetail : Texts \cup {Undefined},
     timeFrame : Texts]

\* The payload of the submit calls where the payload is not under study
SamplePayload ==
    [file |-> [uri |-> "file:///a.jpg", name |-> "a.jpg", type |-> "image/jpeg"],
     title |-> <<"B","a","g">>, description |-> Undefined,
     locationType |-> <<"B","a","g">>, locationDetail |-> Undefined,
     timeFrame |-> <<"B","a","g">>]

SubmitOperations == {submitLostItem, submitFoundItem}

\* The arguments an operation is called with
Arguments(op) == IF op \in SubmitOperations THEN <<SamplePayload>> ELSE <<>>

\* A call that has just handed its request to fetch
NewCall(op, args) ==
    [op |-> op, args |-> args, pc |-> "fetch", responded |-> FALSE, status |-> 0,
     bodyRead |-> FALSE, readOk |-> FALSE, body |-> <<>>,
     transport |-> NoError, value |-> NoValue, error |-> NoError]

\* The request an operation hands to fetch; the submit operations give it
\* the FormData built from their payload as body
Request(i, op, args) ==
    [call |-> i, method |-> Method(op), endpoint |-> Endpoint(op),
     body |-> IF args = <<>> THEN <<>> ELSE buildFormData(args[1])]

\* The call rejects: the error reaches the caller
Rejected(c, e) == [c EXCEPT !.pc = "rejected", !.error = e]

\* The call returns `data`
Resolved(c, v) == [c EXCEPT !.pc = "resolved", !.value = v]

\* An operation is called: it calls fetch once and awaits the response
Call(op, args) ==
    /\ Len(calls) < MaxCalls
    /\ calls' = Append(calls, NewCall(op, args))
    /\ requests' = Append(requests, Request(Len(calls) + 1, op, args))

\* An operation is called from outside the screens
Invoke(op, args) ==
    /\ Call(op, args)
    /\ UNCHANGED <<urlVars, matchVars, screenVars, settingsVars>>

\* Faulty variant of FetchRejects: the failure is caught and rethrown as a request error
FetchRejectsWrapped(i, e) ==
    /\ calls[i].pc = "fetch"
    /\ calls[i].op # checkHealth
    /\ calls' = [calls EXCEPT ![i] =
           Rejected([@ EXCEPT !.transport = e],
                    Error(FailedMessage(calls[i].op, 0, e.message)))]
    /\ UNCHANGED requests
    /\ UNCHANGED <<urlVars, matchVars, screenVars, settingsVars>>

\* Faulty variant of FetchRejects: the failed request is sent again
FetchRejectsRetry(i, e) ==
    /\ calls[i].pc = "fetch"
    /\ calls' = [calls EXCEPT ![i] = [@ EXCEPT !.transport = e]]
    /\ requests' = Append(requests, Request(i, calls[i].op, calls[i].args))
    /\ UNCHANGED <<urlVars, matchVars, screenVars, settingsVars>>

\* fetch rejects (no response): no operation catches it, the call rejects with it
FetchRejects(i, e) ==
    /\ calls[i].pc = "fetch"
    /\ calls' = [calls EXCEPT ![i] = Rejected([@ EXCEPT !.transport = e], e)]
    /\ UNCHANGED requests
    /\ UNCHANGED <<urlVars, matchVars, screenVars, settingsVars>>

\* fetch resolves with a response of status s: on !response.ok checkHealth
\* throws at once and the others await response.text(); otherwise
\* response.json() is awaited
FetchResolves(i, s) ==
    /\ calls[i].pc = "fetch"
    /\ LET c == [calls[i] EXCEPT !.responded = TRUE, !.status = s]
       IN  calls' = [calls EXCEPT ![i] =
               IF ~Ok(s)
               THEN IF c.op = checkHealth
                    THEN Rejected(c, Error(BackendNotReachable))
                    ELSE [c EXCEPT !.pc = "text"]
               ELSE [c EXCEPT !.pc = "json"]]
    /\ UNCHANGED requests
    /\ UNCHANGED <<urlVars, matchVars, screenVars, settingsVars>>

\* response.text() settles (resolves with body b when readOk, rejects
\* otherwise) and the operation throws its error
TextSettles(i, readOk, b) ==
    /\ calls[i].pc = "text"
    /\ LET c == [calls[i] EXCEPT !.bodyRead = TRUE, !.readOk = readOk, !.body = b]
       IN  calls' = [calls EXCEPT ![i] =
               Rejected(c, StatusError(c.op, c.status, readOk, b))]
    /\ UNCHANGED requests
    /\ UNCHANGED <<urlVars, matchVars, screenVars, settingsVars>>

\* response.json() resolves with the parsed value v: the operation returns it
JsonResolves(i, v) ==
    /\ calls[i].pc = "json"
    /\ calls' = [calls EXCEPT ![i] = Resolved(@, v)]
    /\ UNCHANGED requests
    /\ UNCHANGED <<urlVars, matchVars, screenVars, settingsVars>>

\* response.json() rejects: the call rejects with the parse error
JsonRejects(i) ==
    /\ calls[i].pc = "json"
    /\ calls' = [calls EXCEPT ![i] = Rejected(@, JsonParseError)]
    /\ UNCHANGED requests
    /\ UNCHANGED <<urlVars, matchVars, screenVars, settingsVars>>

---------------------------------------------------------------------------
(* buildImageUrl: api/client *)

Http  == <<"h","t","t","p",":","/","/">>
Https == <<"h","t","t","p","s",":","/","/">>

\* The values of API_BASE_URL in the model: "http://h" and "https://h:8/v",
\* neither ending in a slash
BaseUrls == { <<"h","t","t","p",":","/","/","h">>,
              <<"h","t","t","p","s",":","/","/","h",":","8","/","v">> }

\* The pieces the arguments of buildImageUrl are made of
UrlTokens == { <<"h","t","t","p",":">>, <<"h","t","t","p","s",":">>,
               <<"/">>, <<"\\">>, <<"a">>, <<".">> }

RECURSIVE Flatten(_)
Flatten(ts) == IF ts = <<>> THEN <<>> ELSE Head(ts) \o Flatten(Tail(ts))

\* The arguments buildImageUrl is called with in the model
UrlInputs ==
    { Flatten(ts) : ts \in UNION { [1..k -> UrlTokens] : k \in 0..MaxUrlTokens } }

\* imageUrl.replace(/\\/g, '/')
Normalized(url) == [i \in 1..Len(url) |-> IF url[i] = "\\" THEN "/" ELSE url[i]]

\* Faulty variant of buildImageUrl: the '/' is prepended to every path
buildImageUrlAlwaysSlash(url, base) ==
    IF url = <<>> THEN <<>>
    ELSE LET normalized == Normalized(url) IN
         IF StartsWith(normalized, Http) \/ StartsWith(normalized, Https)
         THEN normalized
         ELSE base \o <<"/">> \o normalized

\* Faulty variant of buildImageUrl: the prefix test and the join use the
\* argument as given, only the returned absolute URL is normalised
buildImageUrlLateNormalize(url, base) ==
    IF url = <<>> THEN <<>>
    ELSE IF StartsWith(url, Http) \/ StartsWith(url, Https)
         THEN Normalized(url)
         ELSE LET path == IF StartsWith(url, <<"/">>) THEN url ELSE <<"/">> \o url
              IN  base \o path

\* Faulty variant of buildImageUrl: the base URL is prepended to absolute
\* URLs as well
buildImageUrlAlwaysBase(url, base) ==
    IF url = <<>> THEN <<>>
    ELSE LET normalized == Normalized(url)
             path == IF StartsWith(normalized, <<"/">>)
                     THEN normalized
                     ELSE <<"/">> \o normalized
         IN  base \o path

\* Faulty variant of buildImageUrl: no early return for the empty argument
buildImageUrlNoEmptyCheck(url, base) ==
    LET normalized == Normalized(url) IN
    IF StartsWith(normalized, Http) \/ StartsWith(normalized, Https)
    THEN normalized
    ELSE LET path == IF StartsWith(normalized, <<"/">>)
                     THEN normalized
                     ELSE <<"/">> \o normalized
         IN  base \o path

\* Faulty variant of buildImageUrl: the regular expression is shared between
\* the calls and keeps its position, so that every second call finds no
\* backslash
buildImageUrlSharedRegex(url, base) ==
    IF url = <<>> THEN <<>>
    ELSE LET normalized == IF Len(urlLog) % 2 = 1 THEN url ELSE Normalized(url) IN
         IF StartsWith(normalized, Http) \/ StartsWith(normalized, Https)
         THEN normalized
         ELSE LET path == IF StartsWith(normalized, <<"/">>)
                          THEN normalized
                          ELSE <<"/">> \o normalized
              IN  base \o path

\* buildImageUrl(imageUrl), with API_BASE_URL as the second parameter
buildImageUrl(url, base) ==
    IF url = <<>> THEN <<>>
    ELSE LET normalized == Normalized(url) IN
         IF StartsWith(normalized, Http) \/ StartsWith(normalized, Https)
         THEN normalized
         ELSE LET path == IF StartsWith(normalized, <<"/">>)
                          THEN normalized
                          ELSE <<"/">> \o normalized
              IN  base \o path

\* buildImageUrl is called with the argument url
CallBuildImageUrl(url) ==
    /\ urlCalled' = TRUE
    /\ imageUrl' = url
    /\ builtUrl' = buildImageUrl(url, API_BASE_URL)
    /\ urlLog' = Append(urlLog, [arg |-> url, base |-> API_BASE_URL,
                                 ret |-> buildImageUrl(url, API_BASE_URL)])
    /\ UNCHANGED <<API_BASE_URL, apiVars, matchVars, screenVars, settingsVars>>

UrlInit ==
    /\ API_BASE_URL \in BaseUrls
    /\ urlCalled = FALSE
    /\ imageUrl = <<>>
    /\ builtUrl = <<>>
    /\ urlLog = <<>>

\* The base URL while buildImageUrl is not under study
UrlIdle ==
    /\ API_BASE_URL = <<"h","t","t","p",":","/","/","h">>
    /\ urlCalled = FALSE
    /\ imageUrl = <<>>
    /\ builtUrl = <<>>
    /\ urlLog = <<>>

\* One call, with any argument of UrlInputs
UrlNext == ~urlCalled /\ \E url \in UrlInputs : CallBuildImageUrl(url)

\* The arguments of repeated calls: "", "a", "/a", "a\a", "http://a" and
\* "https://a\a"
RepeatedUrls == { <<>>, <<"a">>, <<"/","a">>, <<"a","\\","a">>,
                  Http \o <<"a">>, Https \o <<"a","\\","a">> }

\* Up to MaxUrlCalls calls in a row, with arguments of RepeatedUrls
UrlCallsNext ==
    Len(urlLog) < MaxUrlCalls /\ \E url \in RepeatedUrls : CallBuildImageUrl(url)

---------------------------------------------------------------------------
(* JavaScript Number arithmetic (IEEE-754 binary64) on the values the match
   classifier meets.  A natural number is a sequence of limbs in base
   LimbBase, least significant first, without leading zero limbs; a Number
   x >= 0 is x.m * 2^(-x.e) with x.m such a natural. *)

RECURSIVE Pow10(_)
Pow10(k) == IF k = 0 THEN 1 ELSE 10 * Pow10(k - 1)

RECURSIVE Pow2(_)
Pow2(k) == IF k = 0 THEN 1 ELSE 2 * Pow2(k - 1)

LimbBits == 15
LimbBase == Pow2(LimbBits)

RECURSIVE Limbs(_)
Limbs(n) == IF n = 0 THEN <<>> ELSE <<n % LimbBase>> \o Limbs(n \div LimbBase)

RECURSIVE NatOf(_)
NatOf(a) == IF a = <<>> THEN 0 ELSE Head(a) + LimbBase * NatOf(Tail(a))

IsOdd(a) == a # <<>> /\ Head(a) % 2 = 1

RECURSIVE Increment(_)
Increment(a) ==
    IF a = <<>> THEN <<1>>
    ELSE IF Head(a) + 1 < LimbBase THEN <<Head(a) + 1>> \o Tail(a)
    ELSE <<0>> \o Increment(Tail(a))

\* a * c + carry, for c <= LimbBase
RECURSIVE MulSmall(_, _, _)
MulSmall(a, c, carry) ==
    IF a = <<>> THEN Limbs(carry)
    ELSE <<(Head(a) * c + carry) % LimbBase>>
         \o MulSmall(Tail(a), c, (Head(a) * c + carry) \div LimbBase)

\* One step of long division: the limb below the part already divided
DivStep(hi, limb, c) ==
    [q |-> IF hi.q = <<>> /\ (hi.r * LimbBase + limb) \div c = 0
           THEN <<>>
           ELSE <<(hi.r * LimbBase + limb) \div c>> \o hi.q,
     r |-> (hi.r * LimbBase + limb) % c]

\* Quotient and remainder of a by c, for 0 < c <= LimbBase
RECURSIVE DivSmall(_, _)
DivSmall(a, c) ==
    IF a = <<>> THEN [q |-> <<>>, r |-> 0]
    ELSE DivStep(DivSmall(Tail(a), c), Head(a), c)

\* a * 2^k
RECURSIVE ShiftLeft(_, _)
ShiftLeft(a, k) ==
    IF a = <<>> \/ k = 0 THEN a
    ELSE IF k >= LimbBits THEN <<0>> \o ShiftLeft(a, k - LimbBits)
    ELSE MulSmall(a, Pow2(k), 0)

\* a \div 2^k, and whether a bit was shifted out
RECURSIVE ShiftRight(_, _)
ShiftRight(a, k) ==
    IF a = <<>> \/ k = 0 THEN [q |-> a, lost |-> FALSE]
    ELSE IF k >= LimbBits
         THEN [q    |-> ShiftRight(Tail(a), k - LimbBits).q,
               lost |-> Head(a) # 0 \/ ShiftRight(Tail(a), k - LimbBits).lost]
    ELSE [q |-> DivSmall(a, Pow2(k)).q, lost |-> DivSmall(a, Pow2(k)).r # 0]

\* a \div 2^k for k >= 1, the bit below the cut and whether a lower bit is set
ShiftRightRounding(a, k) ==
    [q      |-> ShiftRight(a, k).q,
     half   |-> IsOdd(ShiftRight(a, k - 1).q),
     sticky |-> ShiftRight(a, k - 1).lost]

RECURSIVE BitLengthOfInt(_)
BitLengthOfInt(n) == IF n = 0 THEN 0 ELSE 1 + BitLengthOfInt(n \div 2)

\* The number of bits of a
BitLength(a) ==
    IF a = <<>> THEN 0 ELSE LimbBits * (Len(a) - 1) + BitLengthOfInt(a[Len(a)])

\* The number of significand bits of a binary64
Significand == 53

\* rounded to nearest, a tie going to the even neighbour
RoundUp(q, half, sticky) == half /\ (sticky \/ IsOdd(q))

\* The exact value a * 2^(-e) rounded to Significand bits
RoundToNearestEven(a, e) ==
    IF BitLength(a) <= Significand THEN [m |-> a, e |-> e]
    ELSE LET s  == BitLength(a) - Significand
             sh == ShiftRightRounding(a, s)
         IN  [m |-> IF RoundUp(sh.q, sh.half, sh.sticky) THEN Increment(sh.q) ELSE sh.q,
              e |-> e - s]

\* The least j with n * 2^j >= scale, for n >= 1
RECURSIVE ScaleUp(_, _, _)
ScaleUp(n, scale, j) == IF n >= scale THEN j ELSE ScaleUp(2 * n, scale, j + 1)

\* The Number JSON.parse gives for the decimal literal n / scale with
\* 0 <= n < 2 * scale: the binary64 nearest to it, a tie going to even
ParseDecimal(n, scale) ==
    IF n = 0 THEN [m |-> <<>>, e |-> 0]
    ELSE LET e == Significand - 1 + ScaleUp(n, scale, 0)
             d == DivSmall(ShiftLeft(Limbs(n), e), scale)
         IN  [m |-> IF 2 * d.r > scale \/ (2 * d.r = scale /\ IsOdd(d.q))
                    THEN Increment(d.q) ELSE d.q,
              e |-> e]

\* x * c for a Number x and an integer 0 < c <= LimbBase: the exact product
\* rounded to nearest, ties to even
Times(x, c) == RoundToNearestEven(MulSmall(x.m, c, 0), x.e)

\* Math.floor(x) for x >= 0
MathFloor(x) == NatOf(ShiftRight(x.m, x.e).q)

\* Math.round(x) for x >= 0: the integer nearest to x, a tie going up
MathRound(x) ==
    IF x.e = 0 THEN NatOf(x.m)
    ELSE NatOf(ShiftRight(x.m, x.e).q)
         + (IF ShiftRightRounding(x.m, x.e).half THEN 1 ELSE 0)

---------------------------------------------------------------------------
(* Match filter and classifier: screens/ReportItemScreen *)

\* Similarities and thresholds are decimals n / SimScale, held as n
SimScale == Pow10(MaxDecimals)

\* The values of MATCH_THRESHOLD in the model: 0, 0.5 and 1.01
MatchThresholds == {0, SimScale \div 2, SimScale + SimScale \div 100}

\* The values of HIGH_MATCH_THRESHOLD in the model: 0.85 and 0.75
HighThresholds == {(85 * SimScale) \div 100, (75 * SimScale) \div 100}

\* The similarities of the responses with several matches:
\* 0, 0.499, 0.5, 0.6, 0.85, 0.9, 1
KeySimilarities ==
    {0, SimScale \div 2 - 1, SimScale \div 2, (6 * SimScale) \div 10,
     (85 * SimScale) \div 100, (9 * SimScale) \div 10, SimScale}

\* A response's matches with the given similarities; item.id is the position
MatchResults(sims) == [i \in DOMAIN sims |-> [id |-> i, similarity |-> sims[i]]]

\* The `matches` of the responses in the model: one match of any similarity
\* in [0,1], or up to MaxMatches matches of the key similarities
ResponseMatches ==
    { MatchResults(<<n>>) : n \in 0..SimScale }
    \cup { MatchResults(sims) :
             sims \in UNION { [1..k -> KeySimilarities] : k \in 0..MaxMatches } }

\* Faulty variant of Filter: > in place of >=
FilterStrict(ms, threshold) ==
    SelectSeq(ms, LAMBDA m : m.similarity > threshold)

\* matches.filter(m => m.similarity >= MATCH_THRESHOLD): the elements that
\* pass, pushed in iteration order
RECURSIVE Filter(_, _)
Filter(ms, threshold) ==
    IF ms = <<>> THEN <<>>
    ELSE IF Head(ms).similarity >= threshold
         THEN <<Head(ms)>> \o Filter(Tail(ms), threshold)
         ELSE Filter(Tail(ms), threshold)

\* Faulty variant of Status: > in place of >=
StatusStrict(similarity, high) == IF similarity > high THEN "high" ELSE "possible"

\* matchResult.similarity >= HIGH_MATCH_THRESHOLD ? 'high' : 'possible'
Status(similarity, high) == IF similarity >= high THEN "high" ELSE "possible"

\* Faulty variant of Percent: Math.floor in place of Math.round
PercentFloor(similarity) == MathFloor(Times(ParseDecimal(similarity, SimScale), 100))

\* Math.round(matchResult.similarity * 100)
Percent(similarity) == MathRound(Times(ParseDecimal(similarity, SimScale), 100))

\* convertToMatch(matchResult): the fields the classifier computes
convertToMatch(matchResult, high) ==
    [id         |-> matchResult.id,
     similarity |-> Percent(matchResult.similarity),
     status     |-> Status(matchResult.similarity, high)]

\* matches.slice(0, 2)
Slice2(ms) == SubSeq(ms, 1, IF Len(ms) < 2 THEN Len(ms) ELSE 2)

\* setMatches(response.matches) and the render that follows: filteredMatches
\* is recomputed and the success modal converts its first two for the cards
Render(ms) ==
    /\ matchesSet' = TRUE
    /\ matches' = ms
    /\ filteredMatches' = Filter(ms, MATCH_THRESHOLD)
    /\ cards' = [i \in DOMAIN Slice2(Filter(ms, MATCH_THRESHOLD)) |->
                    convertToMatch(Filter(ms, MATCH_THRESHOLD)[i], HIGH_MATCH_THRESHOLD)]
    /\ UNCHANGED <<MATCH_THRESHOLD, HIGH_MATCH_THRESHOLD>>

\* setMatches(ms) on its own, once
SetMatches(ms) ==
    /\ ~matchesSet
    /\ Render(ms)
    /\ UNCHANGED <<apiVars, urlVars, screenVars, settingsVars>>

MatchInit ==
    /\ MATCH_THRESHOLD \in MatchThresholds
    /\ HIGH_MATCH_THRESHOLD \in HighThresholds
    /\ matchesSet = FALSE
    /\ matches = <<>>
    /\ filteredMatches = <<>>
    /\ cards = <<>>

\* The thresholds while the classifier is not under study
MatchIdle ==
    /\ MATCH_THRESHOLD = SimScale \div 2
    /\ HIGH_MATCH_THRESHOLD = (85 * SimScale) \div 100
    /\ matchesSet = FALSE
    /\ matches = <<>>
    /\ filteredMatches = <<>>
    /\ cards = <<>>

MatchNext == ~matchesSet /\ \E ms \in ResponseMatches : SetMatches(ms)

---------------------------------------------------------------------------
(* The report screen: screens/ReportItemScreen *)

ReportTypes == {"lost", "found"}

\* route.params?.type when the screen was opened without a type
NoParam == "none"

\* formData.image before a photo is chosen
Null == [null |-> TRUE]

\* The `error` state when it is null
ErrorNull == <<"null">>

\* t(key): the text of a translation key
T(key) == <<key>>

\* The form as first rendered and as reset after a successful submission
EmptyForm ==
    [image |-> Null, where |-> <<>>, specificPlace |-> <<>>, when |-> <<>>,
     description |-> <<>>]

\* const isLost = reportType === 'lost'
isLost == reportType = "lost"

\* const config = { lost: {...}, found: {...} }: the texts of the success modal
config ==
    [lost  |-> [modalTitle    |-> T("modal_lost_title"),
                modalSubtitle |-> T("modal_lost_subtitle"),
                modalScanned  |-> T("modal_lost_scanned")],
     found |-> [modalTitle    |-> T("modal_found_title"),
                modalSubtitle |-> T("modal_found_subtitle"),
                modalScanned  |-> T("modal_found_scanned")]]

\* const currentConfig = config[reportType], computed at every render
currentConfig == config[reportType]

\* convertToMatch's item.type: isLost ? 'found' : 'lost', with the isLost of
\* the render that shows the match
MatchItemType == IF isLost THEN "found" ELSE "lost"

\* The success modal as rendered in this state: its texts and the types of
\* the matches on its cards
SuccessModal ==
    [visible |-> showSuccessModal,
     config  |-> currentConfig,
     types   |-> [i \in DOMAIN cards |-> MatchItemType]]

\* const isFormValid = formData.image && formData.where && formData.when
isFormValid == formData.image # Null /\ formData.where # <<>> /\ formData.when # <<>>

\* The `disabled` prop given to the submit buttons
disabled == isSubmitting \/ ~isFormValid

\* The matches of the response bodies of the model
MatchesOf(value) ==
    IF value = "dataA" THEN MatchResults(<<(9 * SimScale) \div 10>>)
    ELSE IF value = "dataB"
         THEN MatchResults(<<(6 * SimScale) \div 10, (4 * SimScale) \div 10>>)
         ELSE <<>>

\* Faulty variant of ValidationError: the place is looked at before the photo
ValidationErrorLocationFirst(form) ==
    IF form.where = <<>> THEN T("error_location_required")
    ELSE IF form.image = Null THEN T("error_image_required")
    ELSE IF form.when = <<>> THEN T("error_time_required")
    ELSE ErrorNull

\* The validation at the head of handleSubmit: the message of the first
\* missing field, or null
ValidationError(form) ==
    IF form.image = Null THEN T("error_image_required")
    ELSE IF form.where = <<>> THEN T("error_location_required")
    ELSE IF form.when = <<>> THEN T("error_time_required")
    ELSE ErrorNull

\* value || undefined
OrUndefined(value) == IF value # <<>> THEN value ELSE Undefined

\* Faulty variant of Title: the generated text says 'Lost' for both types
TitleAlwaysLost(form, lost) ==
    IF form.description # <<>> THEN form.description
    ELSE <<"L","o","s","t">> \o <<" ","i","t","e","m"," ","a","t"," ">> \o form.where

\* formData.description || `${isLost ? 'Lost' : 'Found'} item at ${formData.where}`
Title(form, lost) ==
    IF form.description # <<>> THEN form.description
    ELSE (IF lost THEN <<"L","o","s","t">> ELSE <<"F","o","u","n","d">>)
         \o <<" ","i","t","e","m"," ","a","t"," ">> \o form.where

\* The payload handleSubmit builds
Payload(form, lost) ==
    [file |-> form.image, title |-> Title(form, lost),
     description |-> OrUndefined(form.description),
     locationType |-> form.where,
     locationDetail |-> OrUndefined(form.specificPlace),
     timeFrame |-> form.when]

\* Faulty variant of SubmitFn: the two operations are swapped
SubmitFnSwapped(lost) == IF lost THEN submitFoundItem ELSE submitLostItem

\* const submitFn = isLost ? submitLostItem : submitFoundItem
SubmitFn(lost) == IF lost THEN submitLostItem ELSE submitFoundItem

\* Faulty variant of MessageOf: the generic text, whatever the error
MessageOfGeneric(err) == T("error_generic")

\* err instanceof Error ? err.message : t('error_generic')
MessageOf(err) ==
    IF err.name \in {"Error", "TypeError", "SyntaxError"} THEN err.message
    ELSE T("error_generic")

\* Faulty variant of SetRoute: the effect runs on every navigation
SetRouteAlways(type) ==
    /\ routeType' = type
    /\ reportType' = type

\* route.params.type becomes `type`; the effect on route.params?.type runs
\* when the parameter has changed and sets reportType
SetRoute(type) ==
    /\ routeType' = type
    /\ reportType' = IF type # routeType THEN type ELSE reportType

\* HomeScreen's navigation.navigate('Report', { type }), written down
HomeNavigates(type) ==
    /\ ~showSuccessModal
    /\ SetRoute(type)
    /\ navigations' = Append(navigations, type)
    /\ UNCHANGED <<formData, isSubmitting, showSuccessModal, error, submissions,
                   segmentPresses>>
    /\ UNCHANGED <<apiVars, urlVars, matchVars, settingsVars>>

\* The screen is opened, or opened again, with a type (HomeScreen's
\* navigation.navigate('Report', { type })); the effect on
\* route.params?.type sets reportType when the parameter changed
Navigate(type) ==
    /\ ~showSuccessModal
    /\ SetRoute(type)
    /\ UNCHANGED <<formData, isSubmitting, showSuccessModal, error, submissions>>
    /\ UNCHANGED <<apiVars, urlVars, matchVars, settingsVars, segmentPresses,
                   navigations>>

\* A segment of the type toggle is pressed: setReportType(key)
SelectType(key) ==
    /\ ~showSuccessModal
    /\ reportType' = key
    /\ UNCHANGED <<routeType, formData, isSubmitting, showSuccessModal, error,
                   submissions>>
    /\ UNCHANGED <<apiVars, urlVars, matchVars, settingsVars, segmentPresses,
                   navigations>>

\* Faulty variant of handleSelect: no comparison with selectedKey
handleSelectUnguarded(key) ==
    /\ ~showSuccessModal
    /\ segmentPresses' = Append(segmentPresses,
           [key |-> key, selectedKey |-> reportType,
            called |-> <<"haptics.tap", "onSelect">>])
    /\ reportType' = key
    /\ UNCHANGED <<routeType, formData, isSubmitting, showSuccessModal, error,
                   submissions, navigations>>
    /\ UNCHANGED <<apiVars, urlVars, matchVars, settingsVars>>

\* SegmentedControl's handleSelect for the segment `key`, with the props the
\* report screen gives it: selectedKey = reportType and onSelect =
\* setReportType.  What the press called is written down.
handleSelect(key) ==
    /\ ~showSuccessModal
    /\ IF key # reportType
       THEN /\ segmentPresses' = Append(segmentPresses,
                   [key |-> key, selectedKey |-> reportType,
                    called |-> <<"haptics.tap", "onSelect">>])
            /\ reportType' = key
       ELSE /\ segmentPresses' = Append(segmentPresses,
                   [key |-> key, selectedKey |-> reportType, called |-> <<>>])
            /\ UNCHANGED reportType
    /\ UNCHANGED <<routeType, formData, isSubmitting, showSuccessModal, error,
                   submissions, navigations>>
    /\ UNCHANGED <<apiVars, urlVars, matchVars, settingsVars>>

\* One of the five form inputs changes: setFormData(prev => ({...prev, field}))
SetField(field, value) ==
    /\ ~showSuccessModal
    /\ formData' = [formData EXCEPT ![field] = value]
    /\ UNCHANGED <<routeType, reportType, isSubmitting, showSuccessModal, error,
                   submissions>>
    /\ UNCHANGED <<apiVars, urlVars, matchVars, settingsVars, segmentPresses,
                   navigations>>

\* handleSubmit up to its first await: the validation, then the flags, the
\* payload and the call of submitFn, which issues the request
handleSubmit ==
    /\ ~showSuccessModal
    /\ IF ValidationError(formData) # ErrorNull
       THEN /\ error' = ValidationError(formData)
            /\ UNCHANGED <<isSubmitting, submissions, apiVars>>
       ELSE /\ Call(SubmitFn(isLost), <<Payload(formData, isLost)>>)
            /\ isSubmitting' = TRUE
            /\ error' = ErrorNull
            /\ submissions' = Append(submissions,
                   [call |-> Len(calls) + 1, reportType |-> reportType,
                    pc |-> "awaiting"])
    /\ UNCHANGED <<routeType, reportType, formData, showSuccessModal>>
    /\ UNCHANGED <<urlVars, matchVars, settingsVars, segmentPresses,
                   navigations>>

\* A submit button is pressed.  The buttons are given `disabled`, and a
\* press may be held back while it is set or reach onPress all the same.
PressSubmit ==
    \E held \in (IF disabled THEN BOOLEAN ELSE {FALSE}) : ~held /\ handleSubmit

\* The call a submission awaits has resolved or rejected
Settled(k) ==
    /\ submissions[k].pc = "awaiting"
    /\ calls[submissions[k].call].pc \in {"resolved", "rejected"}

\* Faulty variant of SubmitSettles: the response of a submission that is not
\* the latest one is dropped
SubmitSettlesLatestOnly(k) ==
    /\ Settled(k)
    /\ LET c == calls[submissions[k].call] IN
       IF c.pc = "resolved" /\ k = Len(submissions)
       THEN /\ Render(MatchesOf(c.value))
            /\ showSuccessModal' = TRUE
            /\ formData' = EmptyForm
            /\ UNCHANGED error
       ELSE IF c.pc = "resolved"
       THEN UNCHANGED <<matchVars, showSuccessModal, formData, error>>
       ELSE /\ error' = MessageOf(c.error)
            /\ UNCHANGED <<matchVars, showSuccessModal, formData>>
    /\ isSubmitting' = FALSE
    /\ submissions' = [submissions EXCEPT ![k].pc = "done"]
    /\ UNCHANGED <<routeType, reportType, apiVars, urlVars, settingsVars,
                   segmentPresses, navigations>>

\* Faulty variant of SubmitSettles: the form is reset in the finally block
SubmitSettlesResetsAlways(k) ==
    /\ Settled(k)
    /\ LET c == calls[submissions[k].call] IN
       IF c.pc = "resolved"
       THEN /\ Render(MatchesOf(c.value))
            /\ showSuccessModal' = TRUE
            /\ UNCHANGED error
       ELSE /\ error' = MessageOf(c.error)
            /\ UNCHANGED <<matchVars, showSuccessModal>>
    /\ formData' = EmptyForm
    /\ isSubmitting' = FALSE
    /\ submissions' = [submissions EXCEPT ![k].pc = "done"]
    /\ UNCHANGED <<routeType, reportType, apiVars, urlVars, settingsVars,
                   segmentPresses, navigations>>

\* handleSubmit after its await: the success path, or the catch block, and
\* the finally block
SubmitSettles(k) ==
    /\ Settled(k)
    /\ LET c == calls[submissions[k].call] IN
       IF c.pc = "resolved"
       THEN /\ Render(MatchesOf(c.value))
            /\ showSuccessModal' = TRUE
            /\ formData' = EmptyForm
            /\ UNCHANGED error
       ELSE /\ error' = MessageOf(c.error)
            /\ UNCHANGED <<matchVars, showSuccessModal, formData>>
    /\ isSubmitting' = FALSE
    /\ submissions' = [submissions EXCEPT ![k].pc = "done"]
    /\ UNCHANGED <<routeType, reportType, apiVars, urlVars, settingsVars,
                   segmentPresses, navigations>>

\* The success modal is closed (onClose, or onViewMatches)
CloseModal ==
    /\ showSuccessModal
    /\ showSuccessModal' = FALSE
    /\ UNCHANGED <<routeType, reportType, formData, isSubmitting, error,
                   submissions>>
    /\ UNCHANGED <<apiVars, urlVars, matchVars, settingsVars, segmentPresses,
                   navigations>>

\* The screen as first rendered: const initialType = route.params?.type || 'lost'
ScreenInit ==
    /\ routeType \in ReportTypes \cup {NoParam}
    /\ reportType = IF routeType = NoParam THEN "lost" ELSE routeType
    /\ formData = EmptyForm
    /\ isSubmitting = FALSE
    /\ showSuccessModal = FALSE
    /\ error = ErrorNull
    /\ submissions = <<>>
    /\ segmentPresses = <<>>
    /\ navigations = <<>>

\* The report screen while it is not under study
ScreenIdle ==
    /\ routeType = NoParam
    /\ reportType = "lost"
    /\ formData = EmptyForm
    /\ isSubmitting = FALSE
    /\ showSuccessModal = FALSE
    /\ error = ErrorNull
    /\ submissions = <<>>
    /\ segmentPresses = <<>>
    /\ navigations = <<>>

\* The events of the API client's environment for the calls in flight
Responses ==
    \/ \E i \in DOMAIN calls, e \in TransportErrors : FetchRejects(i, e)
    \/ \E i \in DOMAIN calls, s \in Statuses : FetchResolves(i, s)
    \/ \E i \in DOMAIN calls, b \in Bodies : TextSettles(i, TRUE, b)
    \/ \E i \in DOMAIN calls : TextSettles(i, FALSE, <<>>)
    \/ \E i \in DOMAIN calls, v \in JsonValues : JsonResolves(i, v)
    \/ \E i \in DOMAIN calls : JsonRejects(i)

\* The events of the report screen up to the end of its first submission.
\* A submission whose call has settled continues before any other event is
\* handled.
ScreenNext ==
    IF \E k \in DOMAIN submissions : Settled(k)
    THEN \E k \in DOMAIN submissions : SubmitSettles(k)
    ELSE \/ \E type \in ReportTypes : Navigate(type)
         \/ \E key \in ReportTypes : SelectType(key)
         \/ \E image \in Files \cup {Null} : SetField("image", image)
         \/ \E field \in {"where", "specificPlace", "when", "description"},
               value \in Texts : SetField(field, value)
         \/ submissions = <<>> /\ PressSubmit
         \/ CloseModal
         \/ Responses

\* The events of the report screen with submissions that overlap: the form
\* is filled in with one photo, one place and one time, and a call fails for
\* want of a response or succeeds
OverlapNext ==
    IF \E k \in DOMAIN submissions : Settled(k)
    THEN \E k \in DOMAIN submissions : SubmitSettles(k)
    ELSE \/ \E key \in ReportTypes : SelectType(key)
         \/ SetField("image", SamplePayload.file)
         \/ \E field \in {"where", "when"} : SetField(field, <<"B","a","g">>)
         \/ PressSubmit
         \/ CloseModal
         \/ \E i \in DOMAIN calls : FetchRejects(i, NetworkRequestFailed)
         \/ \E i \in DOMAIN calls : FetchResolves(i, 200)
         \/ \E i \in DOMAIN calls, v \in JsonValues : JsonResolves(i, v)

\* Presses on the type toggle, and navigations to the screen with a type
ToggleNext ==
    Len(segmentPresses) + Len(navigations) < MaxPresses /\
        \/ \E key \in ReportTypes : handleSelect(key)
        \/ \E type \in ReportTypes : HomeNavigates(type)

\* The requests of the client: the report screen's submissions and calls of
\* the five operations from elsewhere, up to the moment the requests are out
ClientNext ==
    \/ \E op \in Operations : Invoke(op, Arguments(op))
    \/ \E key \in ReportTypes : SelectType(key)
    \/ SetField("image", SamplePayload.file)
    \/ \E field \in {"where", "when"} : SetField(field, <<"B","a","g">>)
    \/ PressSubmit

---------------------------------------------------------------------------
(* The settings screen: the reset flow *)

\* A run of handleResetData: where it stands and the resetDatabase call it
\* made, if any
NewReset == [pc |-> "confirm", call |-> 0]

\* The confirmation alert of some run is on the screen
Confirming == \E f \in DOMAIN resets : resets[f].pc = "confirm"

\* Faulty variant of handleResetData: resetDatabase is called before the
\* user has answered
handleResetDataNoConfirm ==
    /\ Len(resets) < MaxResets
    /\ ~Confirming
    /\ Call(resetDatabase, <<>>)
    /\ resets' = Append(resets, [pc |-> "confirm", call |-> Len(calls) + 1])
    /\ UNCHANGED <<storage, queryCache>>
    /\ UNCHANGED <<urlVars, matchVars, screenVars>>

\* handleResetData: the confirmation alert is shown
handleResetData ==
    /\ Len(resets) < MaxResets
    /\ ~Confirming
    /\ resets' = Append(resets, NewReset)
    /\ UNCHANGED <<storage, queryCache>>
    /\ UNCHANGED <<apiVars, urlVars, matchVars, screenVars>>

\* The alert's cancel button: it has no onPress
ChooseCancel(f) ==
    /\ resets[f].pc = "confirm"
    /\ resets' = [resets EXCEPT ![f].pc = "cancelled"]
    /\ UNCHANGED <<storage, queryCache>>
    /\ UNCHANGED <<apiVars, urlVars, matchVars, screenVars>>

\* The alert's destructive button: onPress up to `await resetDatabase()`
ChooseReset(f) ==
    /\ resets[f].pc = "confirm"
    /\ Call(resetDatabase, <<>>)
    /\ resets' = [resets EXCEPT ![f] = [pc |-> "resetDatabase", call |-> Len(calls) + 1]]
    /\ UNCHANGED <<storage, queryCache>>
    /\ UNCHANGED <<urlVars, matchVars, screenVars>>

\* The resetDatabase call of a run has resolved or rejected
ResetSettled(f) ==
    /\ resets[f].pc = "resetDatabase"
    /\ calls[resets[f].call].pc \in {"resolved", "rejected"}

\* Faulty variant of ResetSettles: the failure of resetDatabase is swallowed
\* and the local steps follow all the same
ResetSettlesUnguarded(f) ==
    /\ ResetSettled(f)
    /\ resets' = [resets EXCEPT ![f].pc = "clear"]
    /\ UNCHANGED <<storage, queryCache>>
    /\ UNCHANGED <<apiVars, urlVars, matchVars, screenVars>>

\* onPress after `await resetDatabase()`: AsyncStorage.clear() is called, or
\* the catch block shows the error alert
ResetSettles(f) ==
    /\ ResetSettled(f)
    /\ resets' = [resets EXCEPT ![f].pc =
           IF calls[resets[f].call].pc = "resolved" THEN "clear" ELSE "error"]
    /\ UNCHANGED <<storage, queryCache>>
    /\ UNCHANGED <<apiVars, urlVars, matchVars, screenVars>>

\* AsyncStorage.clear() settles: on success queryClient.invalidateQueries()
\* is called, which marks the cached queries as invalid; on failure the catch
\* block shows the error alert and the storage is cleared or not
ClearSettles(f, ok, cleared) ==
    /\ resets[f].pc = "clear"
    /\ resets' = [resets EXCEPT ![f].pc = IF ok THEN "invalidate" ELSE "error"]
    /\ storage' = IF ok \/ cleared THEN "empty" ELSE storage
    /\ queryCache' = IF ok THEN "invalid" ELSE queryCache
    /\ UNCHANGED <<apiVars, urlVars, matchVars, screenVars>>

\* invalidateQueries() settles: the success alert is shown, or the catch
\* block shows the error alert
InvalidateSettles(f, ok) ==
    /\ resets[f].pc = "invalidate"
    /\ resets' = [resets EXCEPT ![f].pc = IF ok THEN "success" ELSE "error"]
    /\ UNCHANGED <<storage, queryCache>>
    /\ UNCHANGED <<apiVars, urlVars, matchVars, screenVars>>

\* The settings screen as first shown
SettingsIdle ==
    /\ resets = <<>>
    /\ storage = "data"
    /\ queryCache = "fresh"

\* The events of the reset flow.  A run whose resetDatabase call has settled
\* continues before any other event is handled.
SettingsNext ==
    IF \E f \in DOMAIN resets : ResetSettled(f)
    THEN \E f \in DOMAIN resets : ResetSettles(f)
    ELSE \/ handleResetData
         \/ \E f \in DOMAIN resets : ChooseCancel(f)
         \/ \E f \in DOMAIN resets : ChooseReset(f)
         \/ \E f \in DOMAIN resets, ok \in BOOLEAN, cleared \in BOOLEAN :
                ClearSettles(f, ok, cleared)
         \/ \E f \in DOMAIN resets, ok \in BOOLEAN : InvalidateSettles(f, ok)
         \/ Responses

---------------------------------------------------------------------------
(* Specifications *)

ApiInit ==
    /\ calls = <<>>
    /\ requests = <<>>

ApiNext ==
    \/ \E op \in Operations : Invoke(op, Arguments(op))
    \/ \E i \in DOMAIN calls, e \in TransportErrors : FetchRejects(i, e)
    \/ \E i \in DOMAIN calls, s \in Statuses : FetchResolves(i, s)
    \/ \E i \in DOMAIN calls, b \in Bodies : TextSettles(i, TRUE, b)
    \/ \E i \in DOMAIN calls : TextSettles(i, FALSE, <<>>)
    \/ \E i \in DOMAIN calls, v \in JsonValues : JsonResolves(i, v)
    \/ \E i \in DOMAIN calls : JsonRejects(i)

\* One submit call, with any payload
FormNext ==
    calls = <<>> /\ \E op \in SubmitOperations, payload \in Payloads :
                        Invoke(op, <<payload>>)

\* The API client: calls of its five operations and their outcomes
Init == ApiInit /\ UrlIdle /\ MatchIdle /\ ScreenIdle /\ SettingsIdle
Next == ApiNext
Spec == Init /\ [][Next]_vars

\* The body a submit operation builds from its payload
SpecForm == Init /\ [][FormNext]_vars

\* The report screen and the submissions it starts
InitScreen == ApiInit /\ UrlIdle /\ MatchIdle /\ ScreenInit /\ SettingsIdle
SpecScreen == InitScreen /\ [][ScreenNext]_vars

\* The requests issued by the report screen and by direct calls
SpecClient == Init /\ [][ClientNext]_vars

\* The report screen's type toggle and route parameter
SpecToggle == InitScreen /\ [][ToggleNext]_vars

\* The settings screen's reset flow
SpecSettings == Init /\ [][SettingsNext]_vars

\* The report screen with submissions in flight at the same time
SpecOverlap == Init /\ [][OverlapNext]_vars

\* buildImageUrl applied to one argument under each base URL
InitUrl == ApiInit /\ UrlInit /\ MatchIdle /\ ScreenIdle /\ SettingsIdle
SpecUrl == InitUrl /\ [][UrlNext]_vars

\* buildImageUrl called repeatedly
SpecUrlCalls == InitUrl /\ [][UrlCallsNext]_vars

\* The report screen's matches set from a response and rendered, under each
\* pair of thresholds
InitMatch == ApiInit /\ UrlIdle /\ MatchInit /\ ScreenIdle /\ SettingsIdle
SpecMatch == InitMatch /\ [][MatchNext]_vars

---------------------------------------------------------------------------
(* Claims about the API client *)

Boom == <<"b","o","o","m">>

RequestOps == {submitLostItem, submitFoundItem, fetchHistory, resetDatabase}

RequestsOf(i) == {k \in DOMAIN requests : requests[k].call = i}

\* C1: for submitLostItem, submitFoundItem, fetchHistory and resetDatabase, a
\* response with a non-success status never leads to a returned value, and
\* once the body text has been read the call has failed with an Error whose
\* message contains the decimal status code and the body text verbatim.
C1_StatusErrorCarriesStatusAndBody ==
    \A i \in DOMAIN calls :
        LET c == calls[i] IN
        (c.op \in RequestOps /\ c.responded /\ ~Ok(c.status)) =>
            /\ c.pc \in {"text", "rejected"}
            /\ c.value = NoValue
            /\ (c.bodyRead /\ c.readOk) =>
                  /\ c.pc = "rejected"
                  /\ c.error.name = "Error"
                  /\ Contains(c.error.message, NumberToString(c.status))
                  /\ Contains(c.error.message, c.body)

\* C1 witness: submitLostItem answered 500 with body "boom" has failed with
\* a message containing "500" and "boom".
C1_Witness ==
    \E i \in DOMAIN calls :
        /\ calls[i].op = submitLostItem
        /\ calls[i].status = 500
        /\ calls[i].readOk
        /\ calls[i].body = Boom
        /\ calls[i].pc = "rejected"
        /\ Contains(calls[i].error.message, <<"5","0","0">>)
        /\ Contains(calls[i].error.message, Boom)

\* C2: when the status is non-success and reading the body fails, the call
\* still fails with the request Error carrying the status code, with the
\* placeholder 'Unknown error' where the body text would be; the body-read
\* failure is not the error that reaches the caller.
C2_UnreadableBodyFallsBackToPlaceholder ==
    \A i \in DOMAIN calls :
        LET c == calls[i] IN
        (c.op \in RequestOps /\ c.responded /\ ~Ok(c.status)
            /\ c.bodyRead /\ ~c.readOk) =>
            /\ c.pc = "rejected"
            /\ c.error # BodyReadError
            /\ c.error.name = "Error"
            /\ StartsWith(c.error.message, FailedPrefix(c.op) \o NumberToString(c.status))
            /\ SubSeq(c.error.message,
                      Len(c.error.message) - Len(UnknownError) + 1,
                      Len(c.error.message)) = UnknownError

\* C2 witness: a call answered with a non-success status whose body read
\* failed has been rejected.
C2_Witness ==
    \E i \in DOMAIN calls :
        /\ calls[i].op = resetDatabase
        /\ calls[i].responded /\ calls[i].status = 500
        /\ calls[i].bodyRead /\ ~calls[i].readOk
        /\ calls[i].pc = "rejected"

\* C3: a transport failure (no response) of submitLostItem or submitFoundItem
\* reaches the caller as the transport's own error, unmodified: it is not the
\* Error built for a non-success status and its message holds no status code.
C3_TransportFailureIsDistinct ==
    \A i \in DOMAIN calls :
        LET c == calls[i] IN
        (c.op \in {submitLostItem, submitFoundItem} /\ c.pc = "rejected"
            /\ ~c.responded) =>
            /\ c.error = c.transport
            /\ c.error \in TransportErrors
            /\ c.error.name # "Error"
            /\ ~StartsWith(c.error.message, FailedPrefix(c.op))
            /\ \A s \in Statuses \cup {0} :
                   ~Contains(c.error.message, NumberToString(s))
            /\ \A s \in Statuses, r \in BOOLEAN, b \in Bodies :
                   c.error # StatusError(c.op, s, r, b)

\* C3 witness: both submit operations have failed without a response.
C3_Witness ==
    /\ \E i \in DOMAIN calls :
          calls[i].op = submitLostItem /\ calls[i].pc = "rejected" /\ ~calls[i].responded
    /\ \E i \in DOMAIN calls :
          calls[i].op = submitFoundItem /\ calls[i].pc = "rejected" /\ ~calls[i].responded

\* C4: every call of an API client operation has issued exactly one HTTP
\* request, whatever its outcome so far.
C4_ExactlyOneRequestPerCall ==
    /\ Len(requests) = Len(calls)
    /\ \A i \in DOMAIN calls : Cardinality(RequestsOf(i)) = 1
    /\ \A k \in DOMAIN requests : requests[k].call \in DOMAIN calls

\* C4 witness: one call failed without a response and another failed on a
\* non-success status with an unreadable body, and two requests were sent.
C4_Witness ==
    /\ Len(requests) = 2
    /\ \E i \in DOMAIN calls : calls[i].pc = "rejected" /\ ~calls[i].responded
    /\ \E i \in DOMAIN calls :
          calls[i].pc = "rejected" /\ calls[i].bodyRead /\ ~calls[i].readOk

\* C5 (as claimed): every failure of checkHealth, on a non-success status or
\* without a response, is the generic Error 'Backend is not reachable'.
C5_HealthFailureIsGeneric ==
    \A i \in DOMAIN calls :
        LET c == calls[i] IN
        (c.op = checkHealth /\ c.pc = "rejected" /\ (~c.responded \/ ~Ok(c.status))) =>
            c.error = Error(BackendNotReachable)

\* The positions of the entries called `name` in a FormData
Named(body, name) == {k \in DOMAIN body : body[k].name = name}

\* The FormData holds exactly one entry called `name`, with this value
Single(body, name, value) ==
    /\ Cardinality(Named(body, name)) = 1
    /\ \A k \in Named(body, name) : body[k].value = value

\* A payload field that is present and not the empty string
NonEmpty(value) == value # Undefined /\ Len(value) > 0

\* C14: the body of every submit request holds the entries file (uri, name
\* and type as in payload.file), title, location_type and time_frame with
\* the values of payload.title, locationType and timeFrame; it holds a
\* description entry iff payload.description is non-empty and a
\* location_detail entry iff payload.locationDetail is non-empty, each with
\* the payload's value.
C14_BodyCarriesPayloadFields ==
    \A r \in DOMAIN requests :
        calls[requests[r].call].op \in SubmitOperations =>
            LET payload == calls[requests[r].call].args[1]
                body == requests[r].body
            IN  /\ Cardinality(Named(body, "file")) = 1
                /\ \A k \in Named(body, "file") :
                       /\ body[k].value.uri = payload.file.uri
                       /\ body[k].value.name = payload.file.name
                       /\ body[k].value.type = payload.file.type
                /\ Single(body, "title", payload.title)
                /\ Single(body, "location_type", payload.locationType)
                /\ Single(body, "time_frame", payload.timeFrame)
                /\ (Named(body, "description") # {}) <=> NonEmpty(payload.description)
                /\ NonEmpty(payload.description) =>
                       Single(body, "description", payload.description)
                /\ (Named(body, "location_detail") # {})
                       <=> NonEmpty(payload.locationDetail)
                /\ NonEmpty(payload.locationDetail) =>
                       Single(body, "location_detail", payload.locationDetail)

\* C14 witness: a payload with the description "Bag" and an empty location
\* detail has been sent with a description entry and no location_detail entry.
C14_Witness ==
    /\ Len(requests) = 1
    /\ calls[1].op = submitFoundItem
    /\ calls[1].args[1].description = <<"B","a","g">>
    /\ calls[1].args[1].locationDetail = <<>>
    /\ Single(requests[1].body, "description", <<"B","a","g">>)
    /\ Named(requests[1].body, "location_detail") = {}
    /\ Len(requests[1].body) = 5

\* C15: every request of submitLostItem is a POST to LOST and every request
\* of submitFoundItem a POST to FOUND, fetchHistory issues a GET to HISTORY
\* and resetDatabase a DELETE to RESET; a submission of the report screen
\* calls submitLostItem iff the report type was 'lost' when submit was
\* pressed, and submitFoundItem iff it was 'found'.
C15_OperationsHitTheirEndpoints ==
    /\ \A r \in DOMAIN requests :
           LET op == calls[requests[r].call].op
               sent == <<requests[r].method, requests[r].endpoint>>
           IN  /\ op = submitLostItem  => sent = <<"POST", "LOST">>
               /\ op = submitFoundItem => sent = <<"POST", "FOUND">>
               /\ op = fetchHistory    => sent = <<"GET", "HISTORY">>
               /\ op = resetDatabase   => sent = <<"DELETE", "RESET">>
    /\ \A k \in DOMAIN submissions :
           LET op == calls[submissions[k].call].op IN
           /\ op = submitLostItem  <=> submissions[k].reportType = "lost"
           /\ op = submitFoundItem <=> submissions[k].reportType = "found"
           /\ \E r \in DOMAIN requests : requests[r].call = submissions[k].call

\* C15 witness: submit was pressed with the type 'found' and the request went
\* out as a POST to FOUND; a resetDatabase call went out as a DELETE to RESET.
C15_Witness ==
    /\ Len(submissions) = 1
    /\ submissions[1].reportType = "found"
    /\ \E r \in DOMAIN requests :
           /\ requests[r].call = submissions[1].call
           /\ requests[r].method = "POST"
           /\ requests[r].endpoint = "FOUND"
    /\ \E r \in DOMAIN requests :
           /\ calls[requests[r].call].op = resetDatabase
           /\ requests[r].method = "DELETE"
           /\ requests[r].endpoint = "RESET"

---------------------------------------------------------------------------
(* Claims about buildImageUrl *)

Slash == <<"/">>

\* A non-empty argument whose normalised form is not an absolute URL
RelativePath(url) ==
    /\ url # <<>>
    /\ ~StartsWith(Normalized(url), Http)
    /\ ~StartsWith(Normalized(url), Https)

\* What follows the base URL in the result
AfterBase(url, base) == SubSeq(url, Len(base) + 1, Len(url))

\* s without its leading '/', if it has one
StripSlash(s) == IF StartsWith(s, Slash) THEN Tail(s) ELSE s

\* The join of the claim: the base URL, one '/', the path, no second '/'; and
\* the path with its leading '/' removed gives the same result
JoinedWithOneSlash ==
    LET n == Normalized(imageUrl) IN
    /\ StartsWith(builtUrl, API_BASE_URL)
    /\ AfterBase(builtUrl, API_BASE_URL) = Slash \o StripSlash(n)
    /\ ~StartsWith(AfterBase(builtUrl, API_BASE_URL), Slash \o Slash)
    /\ (StartsWith(n, Slash) /\ RelativePath(Tail(imageUrl))) =>
           buildImageUrl(Tail(imageUrl), API_BASE_URL) = builtUrl
    /\ ~StartsWith(n, Slash) =>
           buildImageUrl(Slash \o imageUrl, API_BASE_URL) = builtUrl

\* C9 (as claimed): for every relative path the result is the base URL and
\* the path with exactly one '/' between them, the same with and without a
\* leading '/', and never a double slash at the join.
C9_EveryRelativePathJoinedWithOneSlash ==
    (urlCalled /\ RelativePath(imageUrl)) => JoinedWithOneSlash

\* C9 (amended): the same for every relative path whose normalised form does
\* not begin with two slashes.
C9_RelativePathJoinedWithOneSlash ==
    (urlCalled /\ RelativePath(imageUrl)
        /\ ~StartsWith(Normalized(imageUrl), Slash \o Slash)) => JoinedWithOneSlash

\* C9 witness: "/a.a" has been turned into the base URL followed by "/a.a".
C9_Witness ==
    /\ urlCalled
    /\ imageUrl = <<"/","a",".","a">>
    /\ builtUrl = API_BASE_URL \o <<"/","a",".","a">>

\* C10: the result of buildImageUrl never contains a backslash, and is the
\* result for the same argument written with forward slashes.
C10_BackslashesNormalisedFirst ==
    urlCalled =>
        /\ \A i \in DOMAIN builtUrl : builtUrl[i] # "\\"
        /\ builtUrl = buildImageUrl(Normalized(imageUrl), API_BASE_URL)

\* C10 witness: the Windows-style relative path "a\a" has been turned into
\* the base URL followed by "/a/a".
C10_Witness ==
    /\ urlCalled
    /\ imageUrl = <<"a","\\","a">>
    /\ builtUrl = API_BASE_URL \o <<"/","a","/","a">>

\* An argument that begins with "http://" or "https://"
Absolute(url) == StartsWith(url, Http) \/ StartsWith(url, Https)

\* C11 (as claimed): every argument that begins with "http://" or "https://"
\* is returned unchanged, character for character.
C11_EveryAbsoluteUrlReturnedUnchanged ==
    (urlCalled /\ Absolute(imageUrl)) => builtUrl = imageUrl

\* C11 (amended): an argument that begins with "http://" or "https://" is
\* returned with each backslash replaced by '/', never with the base URL in
\* front; it is returned unchanged when it holds no backslash.
C11_AbsoluteUrlReturnedNormalised ==
    (urlCalled /\ Absolute(imageUrl)) =>
        /\ Len(builtUrl) = Len(imageUrl)
        /\ \A i \in DOMAIN imageUrl :
               builtUrl[i] = (IF imageUrl[i] = "\\" THEN "/" ELSE imageUrl[i])
        /\ ~Contains(imageUrl, <<"\\">>) => builtUrl = imageUrl

\* C11 witness: "https://a" has been returned as it was given.
C11_Witness ==
    /\ urlCalled
    /\ imageUrl = Https \o <<"a">>
    /\ builtUrl = imageUrl

\* C12: for the empty string buildImageUrl returns the empty string, not the
\* base URL and not the base URL followed by '/'.
C12_EmptyStaysEmpty ==
    (urlCalled /\ imageUrl = <<>>) =>
        /\ builtUrl = <<>>
        /\ builtUrl # API_BASE_URL
        /\ builtUrl # API_BASE_URL \o Slash

\* C12 witness: buildImageUrl has been called with the empty string and has
\* returned the empty string.
C12_Witness == urlCalled /\ imageUrl = <<>> /\ builtUrl = <<>>

---------------------------------------------------------------------------
(* Claims about the match filter and classifier *)

\* The positions of `matches` whose similarity meets the match threshold
VisiblePositions == {i \in DOMAIN matches : matches[i].similarity >= MATCH_THRESHOLD}

\* C6: filteredMatches holds exactly the results whose similarity is >= the
\* match threshold, each once and in their order in `matches`; with threshold
\* 0 it is all of `matches`, with a threshold above 1 it is empty, and empty
\* `matches` give an empty list.
C6_FilterKeepsVisibleInOrder ==
    matchesSet =>
    /\ Len(filteredMatches) = Cardinality(VisiblePositions)
    /\ \A k \in DOMAIN filteredMatches :
          /\ filteredMatches[k].id \in VisiblePositions
          /\ filteredMatches[k] = matches[filteredMatches[k].id]
    /\ \A k, l \in DOMAIN filteredMatches :
          k < l => filteredMatches[k].id < filteredMatches[l].id
    /\ MATCH_THRESHOLD = 0 => filteredMatches = matches
    /\ MATCH_THRESHOLD > SimScale => filteredMatches = <<>>
    /\ matches = <<>> => filteredMatches = <<>>

\* C6 witness: of three results the first and the third meet the threshold
\* 0.5 and the second does not, and filteredMatches holds the two in order.
C6_Witness ==
    /\ matchesSet
    /\ MATCH_THRESHOLD = SimScale \div 2
    /\ Len(matches) = 3
    /\ matches[1].similarity = (9 * SimScale) \div 10
    /\ matches[2].similarity = SimScale \div 2 - 1
    /\ matches[3].similarity = SimScale \div 2
    /\ filteredMatches = <<matches[1], matches[3]>>

\* C7: the status of a card is 'high' if and only if the similarity of its
\* result is >= the high threshold, and 'possible' otherwise; the threshold
\* itself is 'high'; classifying the result again gives the card's status.
C7_StatusHighIffAtLeastThreshold ==
    \A k \in DOMAIN cards :
        LET s == filteredMatches[k].similarity IN
        /\ cards[k].id = filteredMatches[k].id
        /\ cards[k].status \in {"high", "possible"}
        /\ cards[k].status = "high" <=> s >= HIGH_MATCH_THRESHOLD
        /\ s = HIGH_MATCH_THRESHOLD => cards[k].status = "high"
        /\ Status(s, HIGH_MATCH_THRESHOLD) = cards[k].status

\* C7 witness: results of similarity 0.85 and 0.6 under the thresholds 0.5
\* and 0.85 are both shown, the first 'high' and the second 'possible'.
C7_Witness ==
    /\ MATCH_THRESHOLD = SimScale \div 2
    /\ HIGH_MATCH_THRESHOLD = (85 * SimScale) \div 100
    /\ Len(matches) = 2
    /\ matches[1].similarity = (85 * SimScale) \div 100
    /\ matches[2].similarity = (6 * SimScale) \div 10
    /\ Len(cards) = 2
    /\ cards[1].status = "high"
    /\ cards[2].status = "possible"

\* A decimal n / SimScale rounded to a whole percentage, a half going up
HalfUpPercent(n) == (200 * n + SimScale) \div (2 * SimScale)

\* The decimals 0.145, 0.285, 0.565 and 0.575: their binary64 times 100 is
\* the binary64 just below 14.5, 28.5, 56.5 and 57.5
TiesBelowHalf == { (n * SimScale) \div 1000 : n \in {145, 285, 565, 575} }

\* C8 (as claimed): the displayed percentage is similarity * 100 rounded
\* half up, for every similarity in [0,1].
C8_PercentIsHalfUpOfDecimal ==
    \A k \in DOMAIN cards :
        cards[k].similarity = HalfUpPercent(filteredMatches[k].similarity)

\* C8 (amended): the displayed percentage is Math.round of the binary64
\* product: an integer in 0..100 within one half of similarity * 100, 0 for
\* 0, 100 for 1, 74 for 0.744 and 75 for 0.745; it is similarity * 100
\* rounded half up except for 0.145, 0.285, 0.565 and 0.575, which go down.
C8_PercentIsMathRoundOfProduct ==
    \A k \in DOMAIN cards :
        LET n == filteredMatches[k].similarity
            p == cards[k].similarity
        IN  /\ p \in 0..100
            /\ 2 * (p * SimScale - 100 * n) \in (0 - SimScale)..SimScale
            /\ n = 0 => p = 0
            /\ n = SimScale => p = 100
            /\ 1000 * n = 744 * SimScale => p = 74
            /\ 1000 * n = 745 * SimScale => p = 75
            /\ p = IF n \in TiesBelowHalf THEN HalfUpPercent(n) - 1 ELSE HalfUpPercent(n)

\* C8 witness: a result of similarity 0.745 is displayed as 75.
C8_Witness ==
    /\ Len(cards) = 1
    /\ 1000 * filteredMatches[1].similarity = 745 * SimScale
    /\ cards[1].similarity = 75

---------------------------------------------------------------------------
(* Claims about the report screen *)

\* Submission k continues after its await in this step
Continues(k) ==
    /\ k \in DOMAIN submissions
    /\ submissions[k].pc = "awaiting"
    /\ submissions'[k].pc = "done"

\* Submission k continues in this step with the response of its call
Succeeds(k) == Continues(k) /\ calls[submissions[k].call].pc = "resolved"

\* Submission k continues in this step with the error of its call
Fails(k) == Continues(k) /\ calls[submissions[k].call].pc = "rejected"

\* Each submission has a call of its own, whose one request is out
OneRequestEach ==
    /\ \A k \in DOMAIN submissions :
           Cardinality({r \in DOMAIN requests :
                           requests[r].call = submissions[k].call}) = 1
    /\ \A j, k \in DOMAIN submissions :
           j # k => submissions[j].call # submissions[k].call

\* A step leaves every call but one as it was, and every request that is out
RunIndependently ==
    /\ \A i \in DOMAIN calls :
           /\ i \in DOMAIN calls'
           /\ calls'[i] # calls[i] =>
                  \A j \in DOMAIN calls : j # i => calls'[j] = calls[j]
    /\ \A r \in DOMAIN requests : r \in DOMAIN requests' /\ requests'[r] = requests[r]

\* C16: submissions started while another is in flight each have their own
\* request out at once and their calls run independently (none cancelled,
\* queued or merged); `matches` changes only when a submission succeeds, and
\* then to the matches of that response, whether or not a submission started
\* later has already completed.
C16_OverlappingSubmissionsLastResponseWins ==
    /\ []OneRequestEach
    /\ [][/\ RunIndependently
          /\ \A k \in DOMAIN submissions :
                 Succeeds(k) => matches' = MatchesOf(calls[submissions[k].call].value)
          /\ matches' # matches => \E k \in DOMAIN submissions : Succeeds(k)]_vars

\* C16 witness: two submissions were in flight together; the second got the
\* response dataB, then the first got dataA, and `matches` holds the matches
\* of dataA.
C16_Witness ==
    /\ Len(submissions) = 2
    /\ submissions[1].pc = "done"
    /\ submissions[2].pc = "done"
    /\ calls[submissions[1].call].pc = "resolved"
    /\ calls[submissions[2].call].pc = "resolved"
    /\ calls[submissions[1].call].value = "dataA"
    /\ calls[submissions[2].call].value = "dataB"
    /\ calls[submissions[2].call].args = calls[submissions[1].call].args
    /\ matches = MatchesOf("dataA")

\* C18: when a submission fails, `error` becomes the message of the error
\* its API client call rejected with, unmodified, and `isSubmitting` becomes
\* false; `isSubmitting` becomes false when any submission completes.
C18_FailureShowsClientErrorAndClearsFlag ==
    [][\A k \in DOMAIN submissions :
           /\ Fails(k) => /\ error' = calls[submissions[k].call].error.message
                          /\ isSubmitting' = FALSE
           /\ Continues(k) => isSubmitting' = FALSE]_vars

\* C18 witness: a submission was answered with status 500 and body "boom";
\* `error` holds the client's "Failed to submit ... item: 500 - boom" and
\* `isSubmitting` is false.
C18_Witness ==
    /\ Len(submissions) = 1
    /\ submissions[1].pc = "done"
    /\ calls[submissions[1].call].pc = "rejected"
    /\ calls[submissions[1].call].status = 500
    /\ error = FailedPrefix(calls[submissions[1].call].op)
                   \o <<"5","0","0"," ","-"," ">> \o Boom
    /\ isSubmitting = FALSE

\* The form holds everything handleSubmit asks for
Complete(form) == form.image # Null /\ Len(form.where) > 0 /\ Len(form.when) > 0

\* C19: a run of handleSubmit sends a request only when the form has an
\* image, a place and a time; otherwise it sends none, leaves isSubmitting,
\* matches, the modal and the form as they were and sets `error` to the
\* message of the first missing field, in the order image, place, time.
C19_ValidationBeforeRequest ==
    [][handleSubmit =>
          IF Complete(formData)
          THEN Len(requests') = Len(requests) + 1
          ELSE /\ requests' = requests
               /\ UNCHANGED <<isSubmitting, matches, showSuccessModal, formData>>
               /\ formData.image = Null => error' = <<"error_image_required">>
               /\ (formData.image # Null /\ formData.where = <<>>) =>
                      error' = <<"error_location_required">>
               /\ (formData.image # Null /\ formData.where # <<>>) =>
                      error' = <<"error_time_required">>]_vars

\* C19 witness: with a photo but neither place nor time, handleSubmit has set
\* the place message and sent nothing.
C19_Witness ==
    /\ formData.image # Null
    /\ formData.where = <<>>
    /\ formData.when = <<>>
    /\ error = <<"error_location_required">>
    /\ requests = <<>>
    /\ isSubmitting = FALSE

\* C20: when a submission succeeds, `matches` becomes the matches of the
\* response, the success modal is shown and the five form fields are reset;
\* when it fails, the form, `matches` and the modal stay as they were.
C20_SuccessResetsFailureKeeps ==
    [][\A k \in DOMAIN submissions :
           /\ Succeeds(k) =>
                  /\ matches' = MatchesOf(calls[submissions[k].call].value)
                  /\ showSuccessModal' = TRUE
                  /\ formData'.image = Null
                  /\ formData'.where = <<>>
                  /\ formData'.specificPlace = <<>>
                  /\ formData'.when = <<>>
                  /\ formData'.description = <<>>
           /\ Fails(k) => UNCHANGED <<formData, matches, showSuccessModal>>]_vars

\* C20 witness: a submission with a description and a specific place was
\* answered with dataB; `matches` holds its two matches, the modal is shown
\* and the form is empty again.
C20_Witness ==
    /\ Len(submissions) = 1
    /\ submissions[1].pc = "done"
    /\ calls[submissions[1].call].pc = "resolved"
    /\ calls[submissions[1].call].value = "dataB"
    /\ calls[submissions[1].call].args[1].description = <<"B","a","g">>
    /\ calls[submissions[1].call].args[1].locationDetail = <<"B","a","g">>
    /\ Len(matches) = 2
    /\ matches = MatchesOf("dataB")
    /\ showSuccessModal
    /\ formData = EmptyForm

LostItemAt == <<"L","o","s","t"," ","i","t","e","m"," ","a","t"," ">>
FoundItemAt == <<"F","o","u","n","d"," ","i","t","e","m"," ","a","t"," ">>

\* The body of the request the step has just sent
SentBody == requests'[Len(requests')].body

\* C22: the title entry of a request handleSubmit sends is the description
\* when that is non-empty, and otherwise "Lost item at <where>" for the type
\* 'lost' and "Found item at <where>" for the type 'found', as the type is
\* when submit is pressed; the title is never empty, and the request has a
\* description entry iff the form's description is non-empty.
C22_TitleFromDescriptionOrType ==
    [][(handleSubmit /\ Complete(formData)) =>
          /\ Len(requests') = Len(requests) + 1
          /\ Cardinality(Named(SentBody, "title")) = 1
          /\ \A k \in Named(SentBody, "title") :
                 /\ Len(SentBody[k].value) > 0
                 /\ Len(formData.description) > 0 =>
                        SentBody[k].value = formData.description
                 /\ (Len(formData.description) = 0 /\ reportType = "lost") =>
                        SentBody[k].value = LostItemAt \o formData.where
                 /\ (Len(formData.description) = 0 /\ reportType = "found") =>
                        SentBody[k].value = FoundItemAt \o formData.where
          /\ (Named(SentBody, "description") # {}) <=> Len(formData.description) > 0
          /\ \A k \in Named(SentBody, "description") :
                 SentBody[k].value = formData.description]_vars

\* C22 witness: a found report without a description went out with the
\* title "Found item at Bag" and no description entry.
C22_Witness ==
    /\ Len(submissions) = 1
    /\ submissions[1].reportType = "found"
    /\ Len(requests) = 1
    /\ Single(requests[1].body, "title", FoundItemAt \o <<"B","a","g">>)
    /\ Named(requests[1].body, "description") = {}

\* The press the step has just written down
LastPress == segmentPresses'[Len(segmentPresses')]

\* C23: a press on a segment calls haptics.tap and onSelect only when the
\* segment's key differs from selectedKey, and then the report type becomes
\* that key; a press on the selected segment calls nothing and leaves the
\* report type and the rest of the screen's state as they were.
C23_OnSelectOnlyForOtherSegment ==
    [][Len(segmentPresses') = Len(segmentPresses) + 1 =>
          /\ LastPress.selectedKey = reportType
          /\ LastPress.key = reportType =>
                 /\ LastPress.called = <<>>
                 /\ UNCHANGED <<routeType, reportType, formData, isSubmitting,
                                showSuccessModal, error, submissions, matches>>
          /\ LastPress.key # reportType =>
                 /\ LastPress.called = <<"haptics.tap", "onSelect">>
                 /\ reportType' = LastPress.key
          /\ reportType' # reportType => LastPress.key # reportType]_vars

\* C23 witness: 'found' was pressed while 'lost' was selected, which called
\* haptics.tap and onSelect, and then 'found' was pressed again, which
\* called nothing; the type is 'found'.
C23_Witness ==
    /\ Len(segmentPresses) = 2
    /\ segmentPresses[1] = [key |-> "found", selectedKey |-> "lost",
                            called |-> <<"haptics.tap", "onSelect">>]
    /\ segmentPresses[2] = [key |-> "found", selectedKey |-> "found",
                            called |-> <<>>]
    /\ reportType = "found"

\* C24: the report type is always 'lost' or 'found'; it starts as the route
\* parameter, or 'lost' without one; a navigation that changes the parameter
\* sets the type to the new parameter; a navigation with the parameter's
\* current value leaves the type as it is, so that a choice made with the
\* toggle since the last navigation stays.
C24_TypeFollowsRouteParameterChanges ==
    /\ reportType = (IF routeType = NoParam THEN "lost" ELSE routeType)
    /\ [](reportType \in {"lost", "found"})
    /\ [][Len(navigations') = Len(navigations) + 1 =>
              LET type == navigations'[Len(navigations')] IN
              /\ type \in {"lost", "found"}
              /\ routeType' = type
              /\ type # routeType => reportType' = type
              /\ type = routeType => reportType' = reportType]_vars
    /\ [][reportType' # reportType =>
              \/ Len(navigations') = Len(navigations) + 1
              \/ Len(segmentPresses') = Len(segmentPresses) + 1]_vars

\* C24 witness: the screen was navigated to with 'found', the user chose
\* 'lost' with the toggle, the screen was navigated to with 'found' again,
\* and the type is still 'lost'.
C24_Witness ==
    /\ navigations = <<"found", "found">>
    /\ Len(segmentPresses) = 1
    /\ segmentPresses[1].key = "lost"
    /\ segmentPresses[1].selectedKey = "found"
    /\ routeType = "found"
    /\ reportType = "lost"

\* Submission k's request is in flight: handleSubmit awaits its call
InFlight(k) == submissions[k].pc = "awaiting"

\* C25: in every reachable state `isSubmitting` is true exactly when at least
\* one submission's request is in flight; with two overlapping submissions it
\* therefore stays true until the second one has completed.
C25_SubmittingIffRequestInFlight ==
    isSubmitting <=> \E k \in DOMAIN submissions : InFlight(k)

\* The opposite of a report type
Opposite(type) == IF type = "lost" THEN "found" ELSE "lost"

\* C26: while the success modal is shown, each of its matches has the type
\* opposite to the type of the report whose submission produced the matches,
\* and the modal's texts are those of that report's type, whatever the report
\* type has been changed to since the submission.
C26_ModalShowsSubmittedReportsType ==
    SuccessModal.visible =>
        \A k \in DOMAIN submissions :
            (submissions[k].pc = "done" /\ calls[submissions[k].call].pc = "resolved") =>
                /\ SuccessModal.config = config[submissions[k].reportType]
                /\ \A i \in DOMAIN SuccessModal.types :
                       SuccessModal.types[i] = Opposite(submissions[k].reportType)

---------------------------------------------------------------------------
(* Claims about the settings screen *)

\* The run of handleResetData that has passed the destructive button and
\* made call i
Chosen(f, i) ==
    /\ resets[f].call = i
    /\ resets[f].pc \notin {"confirm", "cancelled"}

\* C17: a call of resetDatabase puts its DELETE request to RESET out in the
\* step it is made in, with nothing asked; in the settings screen a request
\* goes out only in the step the destructive button of the confirmation
\* alert is chosen in, and choosing cancel sends no request and leaves the
\* calls, AsyncStorage and the query cache as they were.
C17_DeleteOnlyAfterDestructiveChoice ==
    /\ [](\A r \in DOMAIN requests :
              /\ requests[r].method = "DELETE"
              /\ requests[r].endpoint = "RESET"
              /\ \E f \in DOMAIN resets : Chosen(f, requests[r].call))
    /\ [](\A f \in DOMAIN resets : resets[f].pc \in {"confirm", "cancelled"} =>
              \A r \in DOMAIN requests : requests[r].call # resets[f].call)
    /\ [][/\ \A i \in DOMAIN calls' :
                 (i \notin DOMAIN calls /\ calls'[i].op = resetDatabase) =>
                     \E r \in DOMAIN requests' :
                         /\ r \notin DOMAIN requests
                         /\ requests'[r].call = i
                         /\ requests'[r].method = "DELETE"
          /\ requests' # requests =>
                 \E f \in DOMAIN resets :
                     resets[f].pc = "confirm" /\ resets'[f].pc = "resetDatabase"
          /\ \A f \in DOMAIN resets :
                 (resets[f].pc = "confirm" /\ resets'[f].pc = "cancelled") =>
                     UNCHANGED <<requests, calls, storage, queryCache>>]_vars

\* C17 witness: the first alert was answered with cancel and nothing was
\* sent or cleared; the second was answered with the destructive button and
\* the one DELETE request is out.
C17_Witness ==
    /\ Len(resets) = 2
    /\ resets[1].pc = "cancelled"
    /\ resets[1].call = 0
    /\ resets[2].pc = "resetDatabase"
    /\ Len(requests) = 1
    /\ requests[1].call = resets[2].call
    /\ requests[1].method = "DELETE"
    /\ requests[1].endpoint = "RESET"
    /\ storage = "data"
    /\ queryCache = "fresh"

\* Run f of the reset flow moves from one stage to another in this step
Moves(f, from, to) == resets[f].pc = from /\ resets'[f].pc = to

\* C21: a run of the reset flow goes through server reset, storage clear,
\* query invalidation and success alert in that order: AsyncStorage is
\* cleared only by a run whose resetDatabase call resolved, the queries are
\* invalidated only by a run whose storage clear succeeded, and the success
\* alert follows the invalidation only; a run whose step fails shows the
\* error alert, runs no later step and never shows the success alert.
C21_ResetStepsInOrder ==
    /\ [](\A f \in DOMAIN resets :
              /\ resets[f].pc \in {"clear", "invalidate", "success"} =>
                     calls[resets[f].call].pc = "resolved"
              /\ resets[f].pc \in {"invalidate", "success"} =>
                     storage = "empty" /\ queryCache = "invalid")
    /\ [][/\ \A f \in DOMAIN resets :
                 /\ resets'[f].call = resets[f].call \/ resets[f].pc = "confirm"
                 /\ resets'[f].pc # resets[f].pc =>
                        \/ Moves(f, "confirm", "cancelled")
                        \/ Moves(f, "confirm", "resetDatabase")
                        \/ /\ Moves(f, "resetDatabase", "clear")
                           /\ calls[resets[f].call].pc = "resolved"
                        \/ /\ Moves(f, "resetDatabase", "error")
                           /\ calls[resets[f].call].pc = "rejected"
                           /\ UNCHANGED <<storage, queryCache>>
                        \/ /\ Moves(f, "clear", "invalidate")
                           /\ storage' = "empty"
                        \/ /\ Moves(f, "clear", "error")
                           /\ UNCHANGED queryCache
                        \/ Moves(f, "invalidate", "success")
                        \/ Moves(f, "invalidate", "error")
          /\ storage' # storage =>
                 \E f \in DOMAIN resets :
                     Moves(f, "clear", "invalidate") \/ Moves(f, "clear", "error")
          /\ queryCache' # queryCache =>
                 \E f \in DOMAIN resets : Moves(f, "clear", "invalidate")]_vars

\* C21 witness: the first run's resetDatabase call was rejected and the run
\* showed the error alert with the storage untouched at that time; the
\* second run went through all the steps and showed the success alert.
C21_Witness ==
    /\ Len(resets) = 2
    /\ resets[1].pc = "error"
    /\ calls[resets[1].call].pc = "rejected"
    /\ resets[2].pc = "success"
    /\ calls[resets[2].call].pc = "resolved"
    /\ storage = "empty"
    /\ queryCache = "invalid"

=============================================================================
